---- MODULE Spec2Model ----
(***************************************************************************)
(* The NO2 time-series pipeline of Air_Pollution_Statistics.ipynb: the     *)
(* capitals table, the statistical requests, the parallel download and the *)
(* normalization of the responses into the flat table no2_df; and the      *)
(* deforestation notebook: the cloud-free mosaic evalscript, the yearly    *)
(* requests and files, the forest mask, its change and the year of loss.   *)
(* Also the monthly mean evalscript and the country statistics of the NO2  *)
(* notebook, and the tile search of the catalog notebook.                  *)
(*                                                                         *)
(* A notebook cell is one action.  A cell runs its statements in order and *)
(* stops at the first statement that raises; the assignments made before   *)
(* that statement stay.  The cell that loads the capitals table runs once; *)
(* the other cells can be run again, in any order, a bounded number of     *)
(* times.                                                                  *)
(*                                                                         *)
(* Strings that the code takes apart (column keys) are sequences of        *)
(* one-character strings.  Timestamps are day offsets from 2022-01-01.     *)
(***************************************************************************)
EXTENDS Integers, Sequences, FiniteSets, TLC

VARIABLES
    capitals_file,     \* ./data/eu_capitals.geojson: the rows of the file
    remote,            \* the remote archive: the buckets it holds for a point
    capitals,          \* the GeoDataFrame capitals
    custom_point,      \* the name bound by the "extra point" cell
    selected_capitals, \* capitals.loc[capitals["name"].isin(to_get)]
    requests,          \* the list of SentinelHubStatistical requests
    download_requests, \* the download requests handed to client.download
    pollution_stats,   \* the list returned by client.download
    no2_dfs,           \* the per-unit tables
    no2_df,            \* the concatenated table
    csv,               \* ./data/no2_capitals_timeseries.csv
    last_run,          \* what the last run of the normalization cell read and bound
    bound,             \* the names that are bound (the others raise NameError)
    \* the deforestation notebook, followed for one pixel of the area
    mosaics,           \* the service: the NDVI band of the mosaic of each summer
    sh_requests,       \* the dictionary year -> SentinelHubRequest
    data_dir,          \* the files of ./data: name -> content
    ds_s2,             \* the xarray dataset opened from the files
    samples,           \* the samples handed to evaluatePixel
    pixel,             \* what evaluatePixel returned for them
    \* the monthly mean and the country statistics of the NO2 notebook
    no2_samples,       \* the samples handed to the mean script for one pixel
    mean_pixel,        \* what the mean script returned for them
    shapefile,         \* ne_50m_admin_0_countries.shp: the rows of the file
    countries,         \* the GeoDataFrame countries
    mean_data,         \* mean_data[0], the downloaded raster, pixel by pixel
    country_array,     \* the rasterized countries, pixel by pixel
    \* the catalog notebook
    catalog_tiles,     \* the tiles the catalog holds
    results            \* list(search_iterator)

\* the variables of the deforestation notebook
deforestation_vars == <<mosaics, sh_requests, data_dir, ds_s2, samples, pixel>>

monthly_vars == <<no2_samples, mean_pixel, shapefile, countries, mean_data, country_array>>

catalog_vars == <<catalog_tiles, results>>

vars == <<capitals_file, remote, capitals, custom_point, selected_capitals,
          requests, download_requests, pollution_stats, no2_dfs, no2_df, csv,
          last_run, bound, deforestation_vars, monthly_vars, catalog_vars>>

(***************************************************************************)
(* Bounds of the model.                                                    *)
(***************************************************************************)
\* number of aggregation intervals of the requested time range that are modelled
NSlots == 2
\* largest number of rows of the capitals file
MaxFile == 1
\* largest number of runs of the "extra point" cell on one loaded table
MaxExtra == 2
\* largest number of runs of the normalization cell
MaxNormRuns == 2
\* number of aggregation intervals when the normalization is checked on its own
NormSlots == 1
\* largest number of runs of the request cell on one loaded table
MaxRequestRuns == 2
\* number of NDVI values the mosaic of a year can hold for the pixel
NdviLevels == 2
\* largest number of year files an earlier session has left in ./data
MaxStale == 1
\* largest number of samples (acquisitions) of a pixel
MaxSamples == 5

\* whether a name of the notebook is bound (reading an unbound name raises NameError)
Bound(name) == name \in bound

(***************************************************************************)
(* Sequence helpers.                                                       *)
(***************************************************************************)
RECURSIVE Flat(_)
\* the concatenation of a sequence of sequences
Flat(ss) == IF ss = <<>> THEN <<>> ELSE Head(ss) \o Flat(Tail(ss))

RECURSIVE SumLen(_)
\* the sum of the lengths of a sequence of sequences
SumLen(ss) == IF ss = <<>> THEN 0 ELSE Len(Head(ss)) + SumLen(Tail(ss))

\* the index of the first occurrence of x in s, 0 when absent
IndexOf(s, x) ==
    IF \E i \in 1..Len(s) : s[i] = x
    THEN CHOOSE i \in 1..Len(s) : s[i] = x /\ \A j \in 1..(i - 1) : s[j] # x
    ELSE 0

Range(s) == {s[i] : i \in 1..Len(s)}

(***************************************************************************)
(* Strings as character sequences.                                         *)
(***************************************************************************)
Dot == "."

K_interval == <<"i", "n", "t", "e", "r", "v", "a", "l">>
K_from == <<"f", "r", "o", "m">>
K_to == <<"t", "o">>
K_outputs == <<"o", "u", "t", "p", "u", "t", "s">>
K_default == <<"d", "e", "f", "a", "u", "l", "t">>
K_bands == <<"b", "a", "n", "d", "s">>
K_NO2 == <<"N", "O", "2">>
K_stats == <<"s", "t", "a", "t", "s">>
K_mean == <<"m", "e", "a", "n">>
K_name == <<"n", "a", "m", "e">>
K_month == <<"m", "o", "n", "t", "h">>

\* Python: sub in s
Contains(s, sub) ==
    \E i \in 0..(Len(s) - Len(sub)) :
        \A j \in 1..Len(sub) : s[i + j] = sub[j]

\* a renaming that keeps the first segment: x.split(".")[0]
FirstSegment(x) ==
    LET dots == {i \in 1..Len(x) : x[i] = Dot}
        first == IF dots = {} THEN Len(x) + 1
                 ELSE CHOOSE i \in dots : \A j \in dots : i <= j
    IN  SubSeq(x, 1, first - 1)

\* Python: x.split(".")[-1], the characters after the last "."
LastSegment(x) ==
    LET dots == {i \in 1..Len(x) : x[i] = Dot}
        last == IF dots = {} THEN 0
                ELSE CHOOSE i \in dots : \A j \in dots : j <= i
    IN  SubSeq(x, last + 1, Len(x))

(***************************************************************************)
(* Cell values.  Every value has the same three fields.                    *)
(***************************************************************************)
Num(n) == [t |-> "num", n |-> n, s |-> <<>>]
Str(s) == [t |-> "str", n |-> 0, s |-> s]
Ts(day) == [t |-> "ts", n |-> day, s |-> <<>>]
\* a capital's name as a cell value
Name(name) == [t |-> "name", n |-> 0, s |-> <<name>>]
NaN == [t |-> "nan", n |-> 0, s |-> <<>>]
Null == [t |-> "null", n |-> 0, s |-> <<>>]

Digits == <<"0", "1", "2", "3", "4", "5", "6", "7", "8", "9">>

IsDigit(c) == c \in Range(Digits)

DigitValue(c) == IndexOf(Digits, c) - 1

RECURSIVE ParseDigits(_, _)
\* the decimal value of a sequence of digits, read left to right
ParseDigits(s, acc) ==
    IF s = <<>> THEN acc
    ELSE ParseDigits(Tail(s), acc * 10 + DigitValue(Head(s)))

\* whether a string parses as a number
Parses(s) == s # <<>> /\ \A i \in 1..Len(s) : IsDigit(s[i])

\* a conversion that leaves what does not parse as it is: errors="ignore"
to_numeric_ignore(v) ==
    CASE v.t = "num" -> v
      [] v.t = "str" -> IF Parses(v.s) THEN Num(ParseDigits(v.s, 0)) ELSE v
      [] OTHER -> v

\* pd.to_numeric(value, errors="coerce") on one cell
to_numeric(v) ==
    CASE v.t = "num" -> v
      [] v.t = "str" -> IF Parses(v.s) THEN Num(ParseDigits(v.s, 0)) ELSE NaN
      [] OTHER -> NaN

(***************************************************************************)
(* JSON payloads: a value is a leaf or a dict, a dict is an ordered list   *)
(* of items.                                                               *)
(***************************************************************************)
Leaf(v) == [d |-> FALSE, v |-> v, items |-> <<>>]
Dict(items) == [d |-> TRUE, v |-> Null, items |-> items]
Item(k, j) == [k |-> k, j |-> j]

\* the program's constants of the aggregation: time_interval and "P2D"
AggregationDays == 2

\* the first day of the k-th aggregation interval of the requested range
SlotStart(k) == AggregationDays * (k - 1)

\* one element of stats["data"]: the bucket of slot k with the value v of the statistic
EntryJson(k, v) ==
    Dict(<<Item(K_interval,
                Dict(<<Item(K_from, Leaf(Ts(SlotStart(k)))),
                       Item(K_to, Leaf(Ts(SlotStart(k) + AggregationDays)))>>)),
           Item(K_outputs,
                Dict(<<Item(K_default,
                     Dict(<<Item(K_bands,
                          Dict(<<Item(K_NO2,
                               Dict(<<Item(K_stats,
                                    Dict(<<Item(K_mean, Leaf(v))>>))>>))>>))>>))>>))>>)

RECURSIVE FlattenItems(_, _)
\* pd.json_normalize on one record: nested keys are joined with "."
FlattenItems(items, prefix) ==
    IF items = <<>> THEN <<>>
    ELSE LET it == Head(items)
             path == IF prefix = <<>> THEN it.k ELSE prefix \o <<Dot>> \o it.k
             here == IF it.j.d THEN FlattenItems(it.j.items, path)
                     ELSE <<[k |-> path, v |-> it.j.v]>>
         IN  here \o FlattenItems(Tail(items), prefix)

(***************************************************************************)
(* Tables (DataFrames): the column keys in order, and the rows in order.   *)
(* A row holds one cell per column, and src, the history of the row: the   *)
(* position of its response, its position in the response's data, and the  *)
(* capital whose geometry built the request that the response answers.     *)
(***************************************************************************)
Table(cols, rows) == [cols |-> cols, rows |-> rows]
Row(cells, src) == [cells |-> cells, src |-> src]

RECURSIVE Dedup(_, _)
\* acc followed by the keys of s that are not yet in it, each once
Dedup(s, acc) ==
    IF s = <<>> THEN acc
    ELSE Dedup(Tail(s), IF Head(s) \in Range(acc) THEN acc ELSE Append(acc, Head(s)))

RECURSIVE UnionCols(_, _)
\* the keys of a list of key lists, each once, in the order of first appearance
UnionCols(lists, acc) ==
    IF lists = <<>> THEN acc
    ELSE UnionCols(Tail(lists), Dedup(Head(lists), acc))

\* the cell of column key in a list of (key, value) pairs, NaN when the key is absent
CellOf(pairs, key) ==
    LET hits == {i \in 1..Len(pairs) : pairs[i].k = key}
    IN  IF hits = {} THEN NaN ELSE pairs[CHOOSE i \in hits : \A j \in hits : i <= j].v

\* the value of column key in a row of a table, NaN when the table has no such column
Cell(tbl, row, key) ==
    IF IndexOf(tbl.cols, key) = 0 THEN NaN ELSE row.cells[IndexOf(tbl.cols, key)]

\* the rows of a table laid out on the columns cols
Realign(tbl, cols) ==
    [i \in 1..Len(tbl.rows) |->
        Row([c \in 1..Len(cols) |-> Cell(tbl, tbl.rows[i], cols[c])], tbl.rows[i].src)]

\* pd.json_normalize(stats["data"]): one row per element of the list
json_normalize(unit, stats) ==
    LET flat == [k \in 1..Len(stats.data) |-> FlattenItems(stats.data[k].items, <<>>)]
        keys == [k \in 1..Len(flat) |-> [i \in 1..Len(flat[k]) |-> flat[k][i].k]]
        cols == UnionCols(keys, <<>>)
    IN  Table(cols,
              [k \in 1..Len(flat) |->
                  Row([c \in 1..Len(cols) |-> CellOf(flat[k], cols[c])],
                      [unit |-> unit, k |-> k, cap |-> stats.req.cap])])

\* df[key] = value: every row gets the value in column key
SetColumn(tbl, key, value) ==
    IF IndexOf(tbl.cols, key) = 0
    THEN Table(Append(tbl.cols, key),
               [i \in 1..Len(tbl.rows) |->
                   Row(Append(tbl.rows[i].cells, value), tbl.rows[i].src)])
    ELSE Table(tbl.cols,
               [i \in 1..Len(tbl.rows) |->
                   Row([tbl.rows[i].cells EXCEPT ![IndexOf(tbl.cols, key)] = value],
                       tbl.rows[i].src)])

RECURSIVE DropDuplicates(_, _)
\* acc followed by the rows of rows whose cells are not yet in it
DropDuplicates(rows, acc) ==
    IF rows = <<>> THEN acc
    ELSE DropDuplicates(Tail(rows),
                        IF \E i \in 1..Len(acc) : acc[i].cells = Head(rows).cells
                        THEN acc ELSE Append(acc, Head(rows)))

\* a concatenation that drops the rows equal to an earlier row
concat_drop_duplicates(dfs) ==
    LET cols == UnionCols([i \in 1..Len(dfs) |-> dfs[i].cols], <<>>)
    IN  Table(cols,
              DropDuplicates(Flat([i \in 1..Len(dfs) |-> Realign(dfs[i], cols)]), <<>>))

\* a concatenation that takes the tables from the last to the first
concat_reversed(dfs) ==
    LET cols == UnionCols([i \in 1..Len(dfs) |-> dfs[i].cols], <<>>)
    IN  Table(cols,
              Flat([i \in 1..Len(dfs) |-> Realign(dfs[Len(dfs) + 1 - i], cols)]))

\* pd.concat(dfs, ignore_index=True): the rows of the tables one after another
concat(dfs) ==
    LET cols == UnionCols([i \in 1..Len(dfs) |-> dfs[i].cols], <<>>)
    IN  Table(cols, Flat([i \in 1..Len(dfs) |-> Realign(dfs[i], cols)]))

\* [col for col in no2_df.columns if 'stats' in col]
StatCols(tbl) == SelectSeq(tbl.cols, LAMBDA col : Contains(col, K_stats))

\* no2_df[stat_cols] = no2_df[stat_cols].apply(pd.to_numeric, errors="coerce")
Coerce(tbl) ==
    Table(tbl.cols,
          [i \in 1..Len(tbl.rows) |->
              Row([c \in 1..Len(tbl.cols) |->
                      IF tbl.cols[c] \in Range(StatCols(tbl))
                      THEN to_numeric(tbl.rows[i].cells[c])
                      ELSE tbl.rows[i].cells[c]],
                  tbl.rows[i].src)])

\* no2_df.rename(columns=lambda x: x.split(".")[-1])
Rename(tbl) ==
    Table([c \in 1..Len(tbl.cols) |-> LastSegment(tbl.cols[c])], tbl.rows)

MonthDays == <<31, 28, 31, 30, 31, 30, 31, 31, 30, 31, 30, 31>>

RECURSIVE MonthFrom(_, _)
\* the month of the day offset day, counted from the first day of month m of 2022
MonthFrom(day, m) ==
    IF m >= 12 \/ day < MonthDays[m] THEN m ELSE MonthFrom(day - MonthDays[m], m + 1)

\* .astype("datetime64[ns, UTC]").dt.month on one cell
MonthOf(v) == IF v.t = "ts" THEN Num(MonthFrom(v.n, 1)) ELSE NaN

\* no2_df["month"] = no2_df["from"].astype("datetime64[ns, UTC]").dt.month
AddMonth(tbl) ==
    LET f == IndexOf(tbl.cols, K_from)
        m == IndexOf(tbl.cols, K_month)
    IN  IF m = 0
        THEN Table(Append(tbl.cols, K_month),
                   [i \in 1..Len(tbl.rows) |->
                       Row(Append(tbl.rows[i].cells, MonthOf(tbl.rows[i].cells[f])),
                           tbl.rows[i].src)])
        ELSE Table(tbl.cols,
                   [i \in 1..Len(tbl.rows) |->
                       Row([tbl.rows[i].cells EXCEPT ![m] = MonthOf(tbl.rows[i].cells[f])],
                           tbl.rows[i].src)])

(***************************************************************************)
(* The capitals table.  A geometry is a point (x, y) with the coordinate   *)
(* system it is expressed in and the radius of the buffer drawn around it. *)
(* Coordinates are in hundredths of a degree; a point moved to EPSG:3857   *)
(* keeps the pair it was built from, tagged with the new system.           *)
(***************************************************************************)
lat == 3802
lon == -793

WGS84 == 4326
WebMercator == 3857
BufferRadius == 2000

Geometry(x, y, crs, buf) == [x |-> x, y |-> y, crs |-> crs, buf |-> buf]
Capital(name, geometry) == [name |-> name, geometry |-> geometry]

\* gpd.points_from_xy(xs, ys, crs): the point with x = xs[0] and y = ys[0]
points_from_xy(x, y, crs) == Geometry(x, y, crs, 0)

\* the rows that ./data/eu_capitals.geojson can hold
FileRows ==
    {Capital("Amsterdam", Geometry(490, 5237, WGS84, 0)),
     Capital("Paris", Geometry(235, 4886, WGS84, 0))}

\* the files of the model: at most MaxFile rows, no name twice
Files ==
    {f \in UNION {[1..n -> FileRows] : n \in 0..MaxFile} :
        \A i, j \in 1..Len(f) : i # j => f[i].name # f[j].name}

\* capitals.to_crs(3857).buffer(2000) on one geometry
Buffered(g) == Geometry(g.x, g.y, WebMercator, g.buf + BufferRadius)

\* to_get = ["Amsterdam", "Brussels", "Tallinn", "Berlin", custom_point]
to_get(cp) == {"Amsterdam", "Brussels", "Tallinn", "Berlin", cp}

\* capitals.loc[capitals["name"].isin(to_get)]
Select(caps, cp) == SelectSeq(caps, LAMBDA c : c.name \in to_get(cp))

\* the request built for one geometry; cap is the row the geometry belongs to
Request(cap) == [bbox |-> cap.geometry, crs |-> cap.geometry.crs, cap |-> cap]

\* for geo_shape in selected_capitals.geometry.values: requests.append(request)
BuildRequests(sel) == [i \in 1..Len(sel) |-> Request(sel[i])]

(***************************************************************************)
(* The remote service.  For a point it holds the statistic of some of the  *)
(* aggregation intervals, in the order of time.                            *)
(***************************************************************************)
\* the values the service can give for a statistic: numbers, and strings
\* that do or do not parse as a number
RawMeans == {Num(1), Str(<<"1", "2">>), Str(<<"x">>), Str(<<"N", "a", "N">>)}

\* the points a request of the notebook can ask for
RequestPoints == {<<490, 5237>>, <<lat, lon>>}

\* a slot for which the service returns no bucket
Absent == [t |-> "absent", n |-> 0, s |-> <<>>]

\* the buckets of one point over n slots: for each slot its value, or Absent
Archives(means, n) == [1..n -> means \cup {Absent}]

\* the points a request can ask for when the capitals come from file: the
\* capitals of the file and the extra point; the archives of the other points
\* are never read and are left empty
Asked(file) ==
    {<<file[i].geometry.x, file[i].geometry.y>> : i \in 1..Len(file)} \cup {<<lat, lon>>}

RECURSIVE DataOf(_, _)
\* stats["data"] of an archive: the entries of the slots k.. that are present
DataOf(a, k) ==
    IF k > Len(a) THEN <<>>
    ELSE (IF a[k] = Absent THEN <<>> ELSE <<EntryJson(k, a[k])>>) \o DataOf(a, k + 1)

\* the response to one request
Response(req) == [data |-> DataOf(remote[<<req.bbox.x, req.bbox.y>>], 1), req |-> req]

\* client.download(download_requests, max_threads=5) when no request fails:
\* the i-th element is the response to the i-th request
Download(reqs) == [i \in 1..Len(reqs) |-> Response(reqs[i])]

(***************************************************************************)
(* The evalscript of the cloud-free mosaic.  A sample holds the four bands *)
(* and the scene classification code SCL of one acquisition.               *)
(***************************************************************************)
\* a quotient of two integers that is not carried out
Ratio(num, den) == [num |-> num, den |-> den]

RECURSIVE InsertSorted(_, _)
\* a sorted sequence with x put before the first element that is not smaller
InsertSorted(x, sorted) ==
    IF sorted = <<>> THEN <<x>>
    ELSE IF x <= Head(sorted) THEN <<x>> \o sorted
         ELSE <<Head(sorted)>> \o InsertSorted(x, Tail(sorted))

RECURSIVE sort_ascending(_)
\* values.sort((a,b) => a-b)
sort_ascending(values) ==
    IF values = <<>> THEN <<>>
    ELSE InsertSorted(Head(values), sort_ascending(Tail(values)))

\* the element in the middle of the sorted values
getMedian(sortedValues) == sortedValues[(Len(sortedValues) \div 2) + 1]

\* function getFirstQuartile(sortedValues): index = Math.floor(length / 4),
\* counted from 0
getFirstQuartile(sortedValues) == sortedValues[(Len(sortedValues) \div 4) + 1]

\* function getFirstQuartileValue(values)
getFirstQuartileValue(values) == getFirstQuartile(sort_ascending(values))

\* function validate(sample)
validate(sample) == sample.SCL \notin {0, 1, 3, 7, 8, 9, 10}

ScaleFactor == 10000
NODATA == -32768

\* function evaluatePixel(samples); the fourth element, ndvi * 10000, is kept
\* as the quotient it is computed from
evaluatePixel(acquisitions) ==
    LET valid == SelectSeq(acquisitions, validate)
        band(name) == [i \in 1..Len(valid) |-> valid[i][name]]
        b08 == getFirstQuartileValue(band("B08"))
        b04 == getFirstQuartileValue(band("B04"))
        b03 == getFirstQuartileValue(band("B03"))
        b02 == getFirstQuartileValue(band("B02"))
    IN  IF Len(valid) > 0
        THEN <<Num(b04 * ScaleFactor), Num(b03 * ScaleFactor), Num(b02 * ScaleFactor),
               Ratio((b08 - b04) * ScaleFactor, b08 + b04)>>
        ELSE <<Num(NODATA), Num(NODATA), Num(NODATA), Num(NODATA)>>

\* the acquisitions the model tells apart: vegetation, bare soil, water, a
\* bright cloud and a dark cloud shadow; the bands are in hundredths
SampleKinds ==
    {[B08 |-> 50, B04 |-> 5, B03 |-> 8, B02 |-> 4, SCL |-> 4],
     [B08 |-> 30, B04 |-> 20, B03 |-> 15, B02 |-> 10, SCL |-> 5],
     [B08 |-> 2, B04 |-> 3, B03 |-> 5, B02 |-> 6, SCL |-> 6],
     [B08 |-> 90, B04 |-> 90, B03 |-> 90, B02 |-> 90, SCL |-> 9],
     [B08 |-> 1, B04 |-> 1, B03 |-> 1, B02 |-> 1, SCL |-> 3]}

\* the lists of at most n samples
SampleLists(n) == UNION {[1..k -> SampleKinds] : k \in 0..n}

(***************************************************************************)
(* The deforestation notebook: the yearly requests and the files of        *)
(* ./data.  A file name is a sequence of characters, relative to ./data.   *)
(***************************************************************************)
\* range(a, b) of Python: a, a + 1, ..., b - 1
range(a, b) == [i \in 1..(b - a) |-> a + i - 1]

FirstYear == 2018
StopYear == 2024

\* for year in range(2018, 2024)
Years == range(FirstYear, StopYear)

DataFolder == "./data"

datetime(year, month, day) == [year |-> year, month |-> month, day |-> day]

\* def interval_of_interest(year)
interval_of_interest(year) == <<datetime(year, 6, 1), datetime(year, 9, 1)>>

\* def get_request(year): the fields of the request that differ between years
\* or are read later
get_request(year) ==
    [time_interval |-> interval_of_interest(year), data_folder |-> DataFolder]

\* sh_requests = {}; for year in range(2018, 2024): sh_requests[year] = get_request(year)
BuildYearRequests == [year \in Range(Years) |-> get_request(year)]

\* [request.download_list[0] for request in sh_requests.values()]: the values
\* of the dictionary in the order of insertion
list_of_requests(reqs) == [i \in 1..Len(Years) |-> reqs[Years[i]]]

RECURSIVE DigitsOf(_)
\* str(n) for n >= 0: the decimal digits of n
DigitsOf(n) ==
    IF n < 10 THEN <<Digits[n + 1]>>
    ELSE DigitsOf(n \div 10) \o <<Digits[(n % 10) + 1]>>

TifSuffix == <<".", "t", "i", "f">>

\* the name of the file of a year written one year late
next_year_file(year) == DigitsOf(year + 1) \o TifSuffix

\* f"./data/{year}.tif", the name inside ./data
year_file(year) == DigitsOf(year) \o TifSuffix

\* request.get_filename_list(): the library names the response file of a
\* request after a hash of the request; the hash is taken to tell the time
\* intervals apart
get_filename_list(request) ==
    << <<"#">> \o DigitsOf(request.time_interval[1].year)
              \o <<"/", "r", "e", "s", "p", "o", "n", "s", "e", ".", "t", "i", "f", "f">> >>

\* def request_output_path(request)
request_output_path(request) ==
    [folder |-> request.data_folder, name |-> get_filename_list(request)[1]]

\* the NDVI band values the service can return for the pixel, in the integer
\* scale of the file: 0.8, 0.7, 0.6, ...
NdviValues == {8000 - 1000 * k : k \in 0..(NdviLevels - 1)}

\* the response to a request of the notebook: the mosaic of its time interval
MosaicResponse(request) ==
    [time_interval |-> request.time_interval,
     ndvi |-> mosaics[request.time_interval[1].year]]

\* a folder without files
EmptyDir == [n \in {} |-> Null]

\* the folder after the download of reqs in which the requests of failed
\* fail: the response of every other request is in the file of the request
Saved(dir, reqs, failed) ==
    LET done == (1..Len(reqs)) \ failed
        names == {request_output_path(reqs[i]).name : i \in done}
    IN  [n \in (DOMAIN dir) \cup names |->
            IF n \in names
            THEN MosaicResponse(reqs[CHOOSE i \in done :
                                         request_output_path(reqs[i]).name = n])
            ELSE dir[n]]

\* Path.rename: the file src is moved to dst, replacing a file of that name
rename_file(dir, src, dst) ==
    [n \in ((DOMAIN dir) \ {src}) \cup {dst} |-> IF n = dst THEN dir[src] ELSE dir[n]]

RECURSIVE rename_all(_, _, _)
\* for year, request in sh_requests.items(): request_output_path(request)
\* .rename(f"./data/{year}.tif"), from the k-th year on; a missing file
\* raises FileNotFoundError and ends the loop
rename_all(dir, reqs, k) ==
    IF k > Len(Years) THEN dir
    ELSE LET src == request_output_path(reqs[Years[k]])
         IN  IF src.folder # DataFolder \/ src.name \notin DOMAIN dir
             THEN dir
             ELSE rename_all(rename_file(dir, src.name, year_file(Years[k])), reqs, k + 1)

(***************************************************************************)
(* The dataset ds_s2 of one pixel: the coordinate year and, for each data  *)
(* variable that has been assigned, one value per year.                    *)
(***************************************************************************)
\* Path("./data").glob("*.tif"): the files directly in the folder whose name
\* ends in ".tif"
glob_tif(dir) ==
    {n \in DOMAIN dir :
        /\ Len(n) >= Len(TifSuffix)
        /\ SubSeq(n, Len(n) - Len(TifSuffix) + 1, Len(n)) = TifSuffix
        /\ \A i \in 1..Len(n) : n[i] # "/"}

\* Path(...).stem of a name that ends in ".tif"
stem(n) == SubSeq(n, 1, Len(n) - Len(TifSuffix))

\* def add_time_dim(xda): year = int(Path(xda.encoding["source"]).stem)
add_time_dim(n) == ParseDigits(stem(n), 0)

RECURSIVE SortedSeq(_)
\* the elements of a set of numbers in ascending order
SortedSeq(S) ==
    IF S = {} THEN <<>>
    ELSE LET m == CHOOSE x \in S : \A y \in S : x <= y
         IN  <<m>> \o SortedSeq(S \ {m})

Scale == 10000

\* xr.open_mfdataset(tiff_paths, preprocess=add_time_dim, ...) / 10000: the
\* files are combined along the coordinate year, in ascending order
open_mfdataset(dir) ==
    LET names == glob_tif(dir)
        years == SortedSeq({add_time_dim(n) : n \in names})
    IN  [year |-> years,
         NDVI |-> [i \in 1..Len(years) |->
                     Ratio(dir[CHOOSE n \in names : add_time_dim(n) = years[i]].ndvi,
                           Scale)],
         FOREST |-> <<>>,
         CHANGE |-> <<>>,
         LOST_YEAR |-> Null,
         has |-> {"NDVI"}]

\* a dataset that has not been opened
NoDataset ==
    [year |-> <<>>, NDVI |-> <<>>, FOREST |-> <<>>, CHANGE |-> <<>>,
     LOST_YEAR |-> Null, has |-> {}]

ThresholdNum == 7
ThresholdDen == 10

\* ds_s2.NDVI > 0.7
forest_mask(ndvi) ==
    [i \in 1..Len(ndvi) |-> ndvi[i].num * ThresholdDen > ThresholdNum * ndvi[i].den]

\* .astype(int) of a boolean
astype_int(b) == IF b THEN 1 ELSE 0

\* a difference that is labelled with the earlier of the two years
diff_lower(x, years) ==
    [year |-> SubSeq(years, 1, Len(years) - 1),
     val |-> [i \in 1..(Len(x) - 1) |-> x[i + 1] - x[i]]]

\* .diff("year", label="upper"): the difference of each value and the value
\* before it, labelled with the later of the two years
diff_upper(x, years) ==
    [year |-> SubSeq(years, 2, Len(years)),
     val |-> [i \in 1..(Len(x) - 1) |-> x[i + 1] - x[i]]]

\* ds_s2[name] = array: the array is laid out on the coordinate year of the
\* dataset; a year the array has no value for gets not-a-number
Aligned(years, array) ==
    [i \in 1..Len(years) |->
        IF IndexOf(array.year, years[i]) = 0 THEN NaN
        ELSE Num(array.val[IndexOf(array.year, years[i])])]

\* ds_s2.FOREST.astype(int).diff("year", label="upper")
change_map(forest, years) ==
    diff_upper([i \in 1..Len(forest) |-> astype_int(forest[i])], years)

\* lost_year = (ds_s2.CHANGE == -1) * ds_s2.year % 100
lost_year(change, years) ==
    [i \in 1..Len(years) |-> (astype_int(change[i] = Num(-1)) * years[i]) % 100]

\* the index of the last value that is not zero, the first index when all are zero
last_nonzero(ly) ==
    LET hits == {i \in 1..Len(ly) : ly[i] # 0}
    IN  IF hits = {} THEN 1 ELSE CHOOSE i \in hits : \A j \in hits : j <= i

\* first_nonzero = (lost_year != 0).argmax(axis=0): the index of the first
\* value that is not zero, the first index when all are zero
first_nonzero(ly) ==
    LET hits == {i \in 1..Len(ly) : ly[i] # 0}
    IN  IF hits = {} THEN 1 ELSE CHOOSE i \in hits : \A j \in hits : i <= j

(***************************************************************************)
(* The cells of the notebook.  A variable that is not bound holds an empty *)
(* value that no cell reads.                                               *)
(***************************************************************************)
\* the deforestation notebook before any of its cells has run
\* the monthly mean and the country cells have not run
MonthlyIdle ==
    /\ no2_samples = <<>>
    /\ mean_pixel = <<>>
    /\ shapefile = <<>>
    /\ countries = <<>>
    /\ mean_data = <<>>
    /\ country_array = <<>>

\* the catalog has not been searched
CatalogIdle ==
    /\ catalog_tiles = <<>>
    /\ results = <<>>

DeforestationIdle ==
    /\ mosaics = [year \in Range(Years) |-> 8000]
    /\ sh_requests = <<>>
    /\ data_dir = EmptyDir
    /\ ds_s2 = NoDataset
    /\ samples = <<>>
    /\ pixel = <<>>

Init ==
    /\ DeforestationIdle
    /\ MonthlyIdle
    /\ CatalogIdle
    /\ capitals_file \in Files
    /\ remote \in [RequestPoints -> Archives({Num(1)}, NSlots)]
    /\ \A p \in RequestPoints \ Asked(capitals_file) :
          remote[p] = [k \in 1..NSlots |-> Absent]
    /\ capitals = <<>>
    /\ custom_point = ""
    /\ selected_capitals = <<>>
    /\ requests = <<>>
    /\ download_requests = <<>>
    /\ pollution_stats = <<>>
    /\ no2_dfs = <<>>
    /\ no2_df = Table(<<>>, <<>>)
    /\ csv = Table(<<>>, <<>>)
    /\ last_run = [runs |-> 0, stats |-> <<>>, names |-> <<>>, df |-> Table(<<>>, <<>>)]
    /\ bound = {}

\* capitals = gpd.read_file("./data/eu_capitals.geojson")
LoadCapitals ==
    /\ ~Bound("capitals")
    /\ capitals' = capitals_file
    /\ bound' = bound \cup {"capitals"}
    /\ UNCHANGED <<capitals_file, remote, custom_point, selected_capitals, requests,
                   download_requests, pollution_stats, no2_dfs, no2_df, csv, last_run>>
    /\ UNCHANGED <<deforestation_vars, monthly_vars, catalog_vars>>

\* the row of the user-defined point
extra_point == Capital("Faro", points_from_xy(lat, lon, WGS84))

\* the capitals table after the load cell and k runs of the extra-point cell
CapitalsWith(file, k) == file \o [i \in 1..k |-> extra_point]

\* capitals.geometry = capitals.to_crs(3857).buffer(2000)
BufferAll(caps) ==
    [i \in 1..Len(caps) |-> Capital(caps[i].name, Buffered(caps[i].geometry))]

\* capitals = pd.concat([capitals, extra_point]); the concatenation raises when
\* capitals is not bound or is no longer in the coordinate system of the point
AddExtraPoint ==
    /\ Cardinality({i \in 1..Len(capitals) : capitals[i].name = "Faro"}) < MaxExtra
    /\ custom_point' = "Faro"
    /\ bound' = bound \cup {"custom_point"}
    /\ capitals' =
          IF Bound("capitals")
             /\ \A i \in 1..Len(capitals) : capitals[i].geometry.crs = WGS84
          THEN Append(capitals, extra_point)
          ELSE capitals
    /\ UNCHANGED <<capitals_file, remote, selected_capitals, requests,
                   download_requests, pollution_stats, no2_dfs, no2_df, csv, last_run>>
    /\ UNCHANGED <<deforestation_vars, monthly_vars, catalog_vars>>

\* client.download raises when a request of the batch fails, and returns nothing
DownloadRaises(failed) == failed # {}

\* the failures of a batch of n requests that are told apart: none, or one request
Failures(n) == {{}} \cup {{i} : i \in 1..n}

\* request.download_list of a statistical request: its one download request
download_list(request) == <<request>>

\* a list that names every request twice, so that each is sent again
DownloadRequestsTwice(reqs) ==
    [i \in 1..Len(reqs) |-> download_list(reqs[i])[1]]
        \o [i \in 1..Len(reqs) |-> download_list(reqs[i])[1]]

\* download_requests = [request.download_list[0] for request in requests]
DownloadRequests(reqs) == [i \in 1..Len(reqs) |-> download_list(reqs[i])[1]]

\* The cell that buffers the capitals, selects them, builds the requests and
\* downloads them.  isin(to_get) raises when custom_point is not bound; failed
\* is the set of requests that fail.  The download is the last statement of
\* the cell and its only call of the service.
RequestCell ==
    /\ Bound("capitals")
    /\ \A i \in 1..Len(capitals) :
          capitals[i].geometry.buf < MaxRequestRuns * BufferRadius
    /\ capitals' = BufferAll(capitals)
    /\ IF ~Bound("custom_point")
       THEN UNCHANGED <<selected_capitals, requests, download_requests,
                       pollution_stats, bound>>
       ELSE /\ selected_capitals' = Select(capitals', custom_point)
            /\ requests' = BuildRequests(selected_capitals')
            /\ download_requests' = DownloadRequests(requests')
            /\ \E failed \in Failures(Len(download_requests')) :
                  IF DownloadRaises(failed)
                  THEN /\ pollution_stats' = pollution_stats
                       /\ bound' = bound \cup {"selected_capitals", "requests",
                                               "download_requests"}
                  ELSE /\ pollution_stats' = Download(download_requests')
                       /\ bound' = bound \cup {"selected_capitals", "requests",
                                               "download_requests", "pollution_stats"}
    /\ UNCHANGED <<capitals_file, remote, custom_point, no2_dfs, no2_df, csv, last_run>>
    /\ UNCHANGED <<deforestation_vars, monthly_vars, catalog_vars>>

\* a comprehension that extends the list of tables bound by the run before
NewFramesExtending(stats) ==
    no2_dfs \o [i \in 1..Len(stats) |-> json_normalize(i, stats[i])]

\* no2_dfs = [pd.json_normalize(stats["data"]) for stats in pollution_stats]
NewFrames(stats) == [i \in 1..Len(stats) |-> json_normalize(i, stats[i])]

\* a loop that pairs the tables with the names taken from the last to the first
TagFramesReversed(dfs, names) ==
    [i \in 1..Len(dfs) |->
        IF i <= Len(names)
        THEN SetColumn(dfs[i], K_name, Name(names[Len(names) + 1 - i]))
        ELSE dfs[i]]

\* a loop that gives every table the first name
TagFramesFirstName(dfs, names) ==
    [i \in 1..Len(dfs) |->
        IF i <= Len(names) THEN SetColumn(dfs[i], K_name, Name(names[1])) ELSE dfs[i]]

\* for df, capital in zip(no2_dfs, selected_capitals.name): df["name"] = capital
TagFrames(dfs, names) ==
    [i \in 1..Len(dfs) |->
        IF i <= Len(names) THEN SetColumn(dfs[i], K_name, Name(names[i])) ELSE dfs[i]]

\* selected_capitals.name
NamesOf(sel) == [i \in 1..Len(sel) |-> sel[i].name]

\* the statements of the normalization cell from pd.concat to rename
Assemble(dfs) == Rename(Coerce(concat(dfs)))

\* The normalization cell.  pd.concat raises on an empty list of tables, and
\* no2_df["from"] raises when no response held a bucket.
NormalizeCell ==
    /\ Bound("pollution_stats")
    /\ last_run.runs < MaxNormRuns
    /\ no2_dfs' = TagFrames(NewFrames(pollution_stats), NamesOf(selected_capitals))
    /\ IF Len(no2_dfs') = 0
       THEN /\ UNCHANGED <<no2_df, csv>>
            /\ bound' = bound \cup {"no2_dfs"}
       ELSE LET renamed == Assemble(no2_dfs')
            IN  IF IndexOf(renamed.cols, K_from) = 0
                THEN /\ no2_df' = renamed
                     /\ UNCHANGED csv
                     /\ bound' = bound \cup {"no2_dfs", "no2_df"}
                ELSE /\ no2_df' = AddMonth(renamed)
                     /\ csv' = no2_df'
                     /\ bound' = bound \cup {"no2_dfs", "no2_df", "csv"}
    /\ last_run' = [runs |-> last_run.runs + 1, stats |-> pollution_stats,
                    names |-> NamesOf(selected_capitals), df |-> no2_df']
    /\ UNCHANGED <<capitals_file, remote, capitals, custom_point, selected_capitals,
                   requests, download_requests, pollution_stats>>
    /\ UNCHANGED <<deforestation_vars, monthly_vars, catalog_vars>>

\* the column pd.read_csv gives the unnamed index column of a written table
K_unnamed == <<"U", "n", "n", "a", "m", "e", "d", ":", " ", "0">>

\* no2_df = pd.read_csv("./data/no2_capitals_timeseries.csv"): the written
\* table with its index as the first column
read_csv(tbl, file) ==
    Table(<<K_unnamed>> \o file.cols,
          [i \in 1..Len(file.rows) |->
              Row(<<Num(i - 1)>> \o file.rows[i].cells, file.rows[i].src)])

\* the table bound to no2_df when the plot is drawn: the assignment of the
\* cell is a comment, so it is the table bound before the cell
plot_table(tbl, file) == tbl

\* sns.lineplot(data=no2_df, x="month", y="mean", hue="name"); the cell draws
\* or raises (no table, no such column) and binds nothing
PlotCell ==
    /\ no2_df' = IF Bound("no2_df") THEN plot_table(no2_df, csv) ELSE no2_df
    /\ UNCHANGED <<capitals_file, remote, capitals, custom_point, selected_capitals,
                   requests, download_requests, pollution_stats, no2_dfs, csv,
                   last_run, bound>>
    /\ UNCHANGED <<deforestation_vars, monthly_vars, catalog_vars>>

\* The states in which the download has returned, for every file, every number
\* of extra points and every archive of the service: the inputs of the
\* normalization cell.
InitNorm ==
    /\ DeforestationIdle
    /\ MonthlyIdle
    /\ CatalogIdle
    /\ capitals_file \in Files
    /\ remote \in [RequestPoints -> Archives(RawMeans, NormSlots)]
    /\ \E k \in 1..MaxExtra : capitals = BufferAll(CapitalsWith(capitals_file, k))
    /\ custom_point = "Faro"
    /\ selected_capitals = Select(capitals, custom_point)
    /\ requests = BuildRequests(selected_capitals)
    /\ download_requests = DownloadRequests(requests)
    /\ pollution_stats = Download(download_requests)
    /\ no2_dfs = <<>>
    /\ no2_df = Table(<<>>, <<>>)
    /\ csv = Table(<<>>, <<>>)
    /\ last_run = [runs |-> 0, stats |-> <<>>, names |-> <<>>, df |-> Table(<<>>, <<>>)]
    /\ bound = {"capitals", "custom_point", "selected_capitals", "requests",
                "download_requests", "pollution_stats"}

NextNorm == NormalizeCell

SpecNorm == InitNorm /\ [][NextNorm]_vars

Next == LoadCapitals \/ AddExtraPoint \/ RequestCell \/ NormalizeCell \/ PlotCell

Spec == Init /\ [][Next]_vars

(***************************************************************************)
(* The cells of the deforestation notebook.                                *)
(***************************************************************************)
\* the variables of the NO2 notebook
no2_vars == <<capitals_file, remote, capitals, custom_point, selected_capitals,
              requests, download_requests, pollution_stats, no2_dfs, no2_df, csv,
              last_run>>

\* the NO2 notebook before any of its cells has run, with an empty service
NO2Idle ==
    /\ capitals_file = <<>>
    /\ remote = [p \in RequestPoints |-> [k \in 1..NSlots |-> Absent]]
    /\ capitals = <<>>
    /\ custom_point = ""
    /\ selected_capitals = <<>>
    /\ requests = <<>>
    /\ download_requests = <<>>
    /\ pollution_stats = <<>>
    /\ no2_dfs = <<>>
    /\ no2_df = Table(<<>>, <<>>)
    /\ csv = Table(<<>>, <<>>)
    /\ last_run = [runs |-> 0, stats |-> <<>>, names |-> <<>>, df |-> Table(<<>>, <<>>)]

\* the cell that creates the dictionary of requests
BuildRequestsCell ==
    /\ sh_requests' = BuildYearRequests
    /\ bound' = bound \cup {"sh_requests"}
    /\ UNCHANGED <<no2_vars, monthly_vars, catalog_vars, mosaics, data_dir, ds_s2, samples, pixel>>

\* data = SentinelHubDownloadClient(config=config).download(list_of_requests,
\* max_threads=5); failed is the set of requests that fail
DownloadMosaicsCell ==
    /\ Bound("sh_requests")
    /\ \E failed \in Failures(Len(list_of_requests(sh_requests))) :
          /\ data_dir' = Saved(data_dir, list_of_requests(sh_requests), failed)
          /\ bound' = IF DownloadRaises(failed) THEN bound \cup {"list_of_requests"}
                       ELSE bound \cup {"list_of_requests", "data"}
    /\ UNCHANGED <<no2_vars, monthly_vars, catalog_vars, mosaics, sh_requests, ds_s2, samples, pixel>>

\* the cell that renames the output of each request to its year
RenameCell ==
    /\ Bound("sh_requests")
    /\ data_dir' = rename_all(data_dir, sh_requests, 1)
    /\ UNCHANGED <<no2_vars, monthly_vars, catalog_vars, mosaics, sh_requests, ds_s2, samples, pixel, bound>>

\* the cell that opens the files as one dataset; it raises when there is no
\* file to open or when the stem of a file is not a number
OpenDatasetCell ==
    /\ IF glob_tif(data_dir) = {}
          \/ \E n \in glob_tif(data_dir) : ~Parses(stem(n))
       THEN UNCHANGED <<ds_s2, bound>>
       ELSE /\ ds_s2' = open_mfdataset(data_dir)
            /\ bound' = bound \cup {"ds_s2"}
    /\ UNCHANGED <<no2_vars, monthly_vars, catalog_vars, mosaics, sh_requests, data_dir, samples, pixel>>

\* ds_s2["FOREST"] = ds_s2.NDVI > 0.7
ForestCell ==
    /\ Bound("ds_s2")
    /\ ds_s2' = [ds_s2 EXCEPT !.FOREST = forest_mask(ds_s2.NDVI),
                              !.has = @ \cup {"FOREST"}]
    /\ UNCHANGED <<no2_vars, monthly_vars, catalog_vars, mosaics, sh_requests, data_dir, samples, pixel, bound>>

\* ds_s2["CHANGE"] = ds_s2.FOREST.astype(int).diff("year", label="upper")
ChangeCell ==
    /\ Bound("ds_s2")
    /\ "FOREST" \in ds_s2.has
    /\ ds_s2' = [ds_s2 EXCEPT
                    !.CHANGE = Aligned(ds_s2.year, change_map(ds_s2.FOREST, ds_s2.year)),
                    !.has = @ \cup {"CHANGE"}]
    /\ UNCHANGED <<no2_vars, monthly_vars, catalog_vars, mosaics, sh_requests, data_dir, samples, pixel, bound>>

\* ds_s2["LOST_YEAR"] = lost_year[first_nonzero]
LostYearCell ==
    /\ Bound("ds_s2")
    /\ "CHANGE" \in ds_s2.has
    /\ LET ly == lost_year(ds_s2.CHANGE, ds_s2.year)
       IN  ds_s2' = [ds_s2 EXCEPT !.LOST_YEAR = Num(ly[first_nonzero(ly)]),
                                  !.has = @ \cup {"LOST_YEAR"}]
    /\ UNCHANGED <<no2_vars, monthly_vars, catalog_vars, mosaics, sh_requests, data_dir, samples, pixel, bound>>

\* a file left by an earlier session
StaleFile == [time_interval |-> <<>>, ndvi |-> 0]

\* the folders an earlier session can have left: the files of some years
StaleDirs ==
    {[n \in {year_file(y) : y \in S} |-> StaleFile] :
        S \in {T \in SUBSET Range(Years) : Cardinality(T) <= MaxStale}}

\* The requests, the download and the renaming, for one mosaic per year and
\* every folder an earlier session can have left.
InitMosaics ==
    /\ NO2Idle
    /\ MonthlyIdle
    /\ CatalogIdle
    /\ mosaics = [year \in Range(Years) |-> 8000]
    /\ sh_requests = <<>>
    /\ data_dir \in StaleDirs
    /\ ds_s2 = NoDataset
    /\ samples = <<>>
    /\ pixel = <<>>
    /\ bound = {}

NextMosaics == BuildRequestsCell \/ DownloadMosaicsCell \/ RenameCell

SpecMosaics == InitMosaics /\ [][NextMosaics]_vars

\* The states in which the download and the renaming have run, for every
\* NDVI value of the pixel in the mosaic of each year and every failure of the
\* download: the inputs of the analysis.
InitForest ==
    /\ NO2Idle
    /\ MonthlyIdle
    /\ CatalogIdle
    /\ mosaics \in [Range(Years) -> NdviValues]
    /\ sh_requests = BuildYearRequests
    /\ \E failed \in Failures(Len(Years)) :
          data_dir = rename_all(Saved(EmptyDir, list_of_requests(sh_requests), failed),
                                sh_requests, 1)
    /\ ds_s2 = NoDataset
    /\ samples = <<>>
    /\ pixel = <<>>
    /\ bound = {"sh_requests", "list_of_requests"}

NextForest == OpenDatasetCell \/ ForestCell \/ ChangeCell \/ LostYearCell

SpecForest == InitForest /\ [][NextForest]_vars

\* the service calls evaluatePixel with the samples of a pixel
EvaluatePixel ==
    /\ pixel = <<>>
    /\ pixel' = evaluatePixel(samples)
    /\ UNCHANGED <<no2_vars, monthly_vars, catalog_vars, mosaics, sh_requests, data_dir, ds_s2, samples, bound>>

\* The evalscript on every list of at most MaxSamples samples.
InitPixel ==
    /\ NO2Idle
    /\ MonthlyIdle
    /\ CatalogIdle
    /\ mosaics = [year \in Range(Years) |-> 8000]
    /\ sh_requests = <<>>
    /\ data_dir = EmptyDir
    /\ ds_s2 = NoDataset
    /\ samples \in SampleLists(MaxSamples)
    /\ pixel = <<>>
    /\ bound = {}

NextPixel == EvaluatePixel

SpecPixel == InitPixel /\ [][NextPixel]_vars

(***************************************************************************)
(* The monthly mean script, evalscript_mean_mosaic, followed for one       *)
(* pixel.  With ORBIT mosaicking the script receives every acquisition of  *)
(* the time interval.  NO2 values are whole numbers of the unit; a         *)
(* quotient is kept as the pair of its terms.                              *)
(***************************************************************************)
MaxNO2 == 2
MaxAcquisitions == 4

\* a sample of the collection: the NO2 band and the mask that tells whether
\* the band has data
NO2Sample(no2, dataMask) == [NO2 |-> no2, dataMask |-> dataMask]

\* a filter that keeps every acquisition
isAny(sample) == TRUE

\* function isClear(sample) { return sample.dataMask == 1; }
isClear(sample) == sample.dataMask = 1

\* function sum(array): the NO2 values added from the first element on
RECURSIVE sum(_)
sum(array) ==
    IF array = <<>> THEN 0 ELSE sum(SubSeq(array, 1, Len(array) - 1)) + array[Len(array)].NO2

\* a / b in JavaScript: dividing by zero raises nothing and gives NaN for
\* 0 / 0 and an infinity of the sign of a otherwise
js_divide(a, b) ==
    IF b # 0 THEN Ratio(a, b)
    ELSE IF a = 0 THEN NaN
    ELSE [t |-> "inf", n |-> IF a > 0 THEN 1 ELSE -1, s |-> <<>>]

\* function evaluatePixel(samples) of evalscript_mean_mosaic
evaluatePixelMean(acquisitions) ==
    LET clearTs == SelectSeq(acquisitions, isClear)
        mean == js_divide(sum(clearTs), Len(clearTs))
    IN  <<mean>>

\* the acquisitions the service can hand to the script for a pixel
NO2SampleKinds == {NO2Sample(v, m) : v \in 1..MaxNO2, m \in {0, 1}}
NO2SampleLists(n) == UNION {[1..k -> NO2SampleKinds] : k \in 0..n}

\* the service evaluates the script for the pixel
EvaluatePixelMean ==
    /\ mean_pixel = <<>>
    /\ mean_pixel' = evaluatePixelMean(no2_samples)
    /\ UNCHANGED <<no2_vars, deforestation_vars, catalog_vars, bound>>
    /\ UNCHANGED <<no2_samples, shapefile, countries, mean_data, country_array>>

InitMean ==
    /\ NO2Idle
    /\ DeforestationIdle
    /\ CatalogIdle
    /\ no2_samples \in NO2SampleLists(MaxAcquisitions)
    /\ mean_pixel = <<>>
    /\ shapefile = <<>>
    /\ countries = <<>>
    /\ mean_data = <<>>
    /\ country_array = <<>>
    /\ bound = {}

NextMean == EvaluatePixelMean

SpecMean == InitMean /\ [][NextMean]_vars

(***************************************************************************)
(* The catalog notebook: the search for tiles over Venice.  A tile is      *)
(* described by its cloud cover in percent and by whether it intersects    *)
(* the bounding box and falls in the time interval of the search.          *)
(***************************************************************************)
MaxCloudCover == 6
MaxTiles == 2

CloudLimit == 5

\* a tile of the s2l2a collection
Tile(cloud_cover, in_bbox, in_time) ==
    [cloud_cover |-> cloud_cover, in_bbox |-> in_bbox, in_time |-> in_time]

TileKinds ==
    {Tile(c, b, t) : c \in 0..MaxCloudCover, b \in BOOLEAN, t \in BOOLEAN}

\* the catalogs the service can hold, in the order it lists the tiles
Catalogs(n) == UNION {[1..k -> TileKinds] : k \in 0..n}

\* filter="eo:cloud_cover < 5"
cloud_filter(tile) == tile.cloud_cover < CloudLimit

\* catalog.search(collection, bbox=venice_bbox, time=time_interval, filter=...)
search(tiles) ==
    SelectSeq(tiles, LAMBDA tile : tile.in_bbox /\ tile.in_time /\ cloud_filter(tile))

\* results = list(search_iterator)
SearchCell ==
    /\ ~Bound("results")
    /\ results' = search(catalog_tiles)
    /\ bound' = bound \cup {"results"}
    /\ UNCHANGED <<no2_vars, deforestation_vars, monthly_vars, catalog_tiles>>

InitCatalog ==
    /\ NO2Idle
    /\ DeforestationIdle
    /\ MonthlyIdle
    /\ catalog_tiles \in Catalogs(MaxTiles)
    /\ results = <<>>
    /\ bound = {}

NextCatalog == SearchCell

SpecCatalog == InitCatalog /\ [][NextCatalog]_vars

(***************************************************************************)
(* The country statistics.  The raster mean_data[0] is followed pixel by   *)
(* pixel, the pixels numbered in row-major order.  The geometry of a       *)
(* country is the run of pixels it covers, with whether it reaches into    *)
(* the bounding box of Europe at all.                                      *)
(***************************************************************************)
NPixels == 4
MaxShapes == 2
MaxRun == 2

Fill == -1

PixelIndex == 1..NPixels

\* a geometry: the pixels first..last (none when first > last)
Shape(first, last, in_bbox) ==
    [pixels |-> first..last, in_bbox |-> in_bbox]

\* the geometries of the file: a country of up to MaxRun pixels, which
\* reaches into the box, or a country outside the box
Shapes ==
    {sh \in {Shape(a, a + n - 1, TRUE) : a \in PixelIndex, n \in 1..MaxRun} :
        sh.pixels \subseteq PixelIndex}
        \cup {Shape(1, 0, FALSE)}

\* the rows ne_50m_admin_0_countries.shp can hold
ShapeFiles(n) == UNION {[1..k -> Shapes] : k \in 0..n}

\* the mean rasters the service can return: the first pixels (the north)
\* hold no data, the others a number each (the numbers tell the pixels apart)
MeanRasters ==
    {[p \in PixelIndex |-> IF p <= missing THEN NaN ELSE Num(p)] : missing \in 0..NPixels}

\* a GeoDataFrame, column by column; a column that was not assigned is empty
Frame(index, admin, geometry, id, mean) ==
    [index |-> index, ADMIN |-> admin, geometry |-> geometry, ID |-> id, mean |-> mean]

NoFrame == Frame(<<>>, <<>>, <<>>, <<>>, <<>>)

\* gpd.read_file(...): row k of the file has index k - 1 and its name
read_file(file) ==
    Frame([k \in 1..Len(file) |-> k - 1], [k \in 1..Len(file) |-> k], file, <<>>, <<>>)

\* the numbers of a set, in ascending order
RECURSIVE Ascending(_)
Ascending(set) ==
    IF set = {} THEN <<>>
    ELSE LET least == CHOOSE k \in set : \A j \in set : k <= j
         IN  <<least>> \o Ascending(set \ {least})

\* the rows of a frame at the given positions, keeping their index
take(frame, at) ==
    Frame([k \in 1..Len(at) |-> frame.index[at[k]]],
          [k \in 1..Len(at) |-> frame.ADMIN[at[k]]],
          [k \in 1..Len(at) |-> frame.geometry[at[k]]],
          <<>>, <<>>)

\* .cx[min_x : max_x, min_y : max_y]: the rows whose geometry meets the box
cx(frame) ==
    take(frame, Ascending({k \in 1..Len(frame.index) : frame.geometry[k].in_bbox}))

\* .reset_index(drop=True): the rows are numbered again from 0
reset_index(frame) ==
    [frame EXCEPT !.index = [k \in 1..Len(frame.index) |-> k - 1]]

\* countries["ID"] = countries.index
assign_id(frame) == [frame EXCEPT !.ID = frame.index]

\* list(countries[["geometry", "ID"]].itertuples(index=False, name=None))
geo_iter(frame) ==
    [k \in 1..Len(frame.ID) |-> <<frame.geometry[k], frame.ID[k]>>]

\* features.rasterize(geo_iter, ..., fill=-1): a pixel that no geometry covers
\* holds the fill value; a pixel that geometries cover holds the value of one
\* of them
rasterize(shapes, fill) ==
    {a \in [PixelIndex -> {shapes[k][2] : k \in 1..Len(shapes)} \cup {fill}] :
        \A p \in PixelIndex :
            LET over == {shapes[k][2] : k \in {j \in 1..Len(shapes) : p \in shapes[j][1].pixels}}
            IN  IF over = {} THEN a[p] = fill ELSE a[p] \in over}

\* raster[mask]: the pixels of a raster where the mask is true, in row-major
\* order
masked(raster, mask) ==
    LET at == Ascending({p \in PixelIndex : mask[p]})
    IN  [k \in 1..Len(at) |-> raster[at[k]]]

\* a selection that also takes the pixels of the countries with a larger ID
get_array_from(country_id) ==
    masked(mean_data, [p \in PixelIndex |-> country_array[p] >= country_id])

\* def get_array(country_id): return mean_data[0][country_array == country_id]
get_array(country_id) ==
    masked(mean_data, [p \in PixelIndex |-> country_array[p] = country_id])

\* the numbers of a sequence of values, added up
RECURSIVE SumNums(_)
SumNums(values) ==
    IF values = <<>> THEN 0 ELSE Head(values).n + SumNums(Tail(values))

\* np.nanmean: the mean of the values that are not NaN, NaN when there is none
nanmean(values) ==
    LET nums == SelectSeq(values, LAMBDA v : v # NaN)
    IN  IF nums = <<>> THEN NaN ELSE Ratio(SumNums(nums), Len(nums))

\* def get_mean(country_id): return np.nanmean(get_array(country_id))
get_mean(country_id) == nanmean(get_array(country_id))

\* countries = gpd.read_file(...).to_crs(3857).cx[...].reset_index(drop=True)
\* countries = countries[["ADMIN", "geometry"]]
CountriesCell ==
    /\ ~Bound("countries")
    /\ countries' = reset_index(cx(read_file(shapefile)))
    /\ bound' = bound \cup {"countries"}
    /\ UNCHANGED <<no2_vars, deforestation_vars, catalog_vars>>
    /\ UNCHANGED <<no2_samples, mean_pixel, shapefile, mean_data, country_array>>

\* countries["ID"] = countries.index; country_array = features.rasterize(...)
RasterizeCell ==
    /\ Bound("countries")
    /\ ~Bound("country_array")
    /\ countries' = assign_id(countries)
    /\ country_array' \in rasterize(geo_iter(countries'), Fill)
    /\ bound' = bound \cup {"country_array"}
    /\ UNCHANGED <<no2_vars, deforestation_vars, catalog_vars>>
    /\ UNCHANGED <<no2_samples, mean_pixel, shapefile, mean_data>>

\* countries["mean"] = countries.apply(lambda x: get_mean(x["ID"]), axis=1)
MeanCell ==
    /\ Bound("country_array")
    /\ ~Bound("mean")
    /\ countries' = [countries EXCEPT
                        !.mean = [k \in 1..Len(countries.ID) |-> get_mean(countries.ID[k])]]
    /\ bound' = bound \cup {"mean"}
    /\ UNCHANGED <<no2_vars, deforestation_vars, catalog_vars>>
    /\ UNCHANGED <<no2_samples, mean_pixel, shapefile, mean_data, country_array>>

\* the raster has been downloaded; the country cells have not run
InitCountries ==
    /\ NO2Idle
    /\ DeforestationIdle
    /\ CatalogIdle
    /\ no2_samples = <<>>
    /\ mean_pixel = <<>>
    /\ shapefile \in ShapeFiles(MaxShapes)
    /\ countries = NoFrame
    /\ mean_data \in MeanRasters
    /\ country_array = <<>>
    /\ bound = {}

NextCountries == CountriesCell \/ RasterizeCell \/ MeanCell

SpecCountries == InitCountries /\ [][NextCountries]_vars

(***************************************************************************)
(* Properties of the normalization.                                        *)
(***************************************************************************)
\* the rows of no2_df
Rows == no2_df.rows

\* stats["data"] of every response, in the order of the responses
DataLists == [u \in 1..Len(pollution_stats) |-> pollution_stats[u].data]

\* the nested keys of the payload
FromKey == K_interval \o <<Dot>> \o K_from
ToKey == K_interval \o <<Dot>> \o K_to
MeanKey ==
    K_outputs \o <<Dot>> \o K_default \o <<Dot>> \o K_bands \o <<Dot>> \o K_NO2
        \o <<Dot>> \o K_stats \o <<Dot>> \o K_mean

\* C2: every row of no2_df carries, in column 'name', the name of the selected
\* capital whose buffered geometry built the request that the row's response
\* answers.
C2_NameIsOwnUnit ==
    Bound("no2_df") =>
        \A i \in 1..Len(Rows) :
            Cell(no2_df, Rows[i], K_name) = Name(Rows[i].src.cap.name)

\* C2 witness: a table with rows of two capitals of different names.
C2_Witness ==
    /\ Bound("no2_df")
    /\ \E i, j \in 1..Len(Rows) : Rows[i].src.cap.name # Rows[j].src.cap.name

\* C4: no2_df has as many rows as the responses have time buckets, and so have
\* the table before coercion, renaming and 'month', and the written file.
C4_RowCount ==
    Bound("no2_df") =>
        /\ Len(Rows) = SumLen(DataLists)
        /\ Len(concat(no2_dfs).rows) = Len(Rows)
        /\ Bound("csv") => Len(csv.rows) = Len(Rows)

\* C4 witness: a written table of three or more rows of which two are equal in
\* every column.
C4_Witness ==
    /\ Bound("csv")
    /\ Len(Rows) >= 3
    /\ \E i, j \in 1..Len(Rows) : i # j /\ Rows[i].cells = Rows[j].cells

\* C5: the rows of the i-th spatial unit come before the rows of the next
\* units, and the rows of one unit keep the order of the buckets of its response.
C5_RowOrder ==
    Bound("no2_df") =>
        \A i, j \in 1..Len(Rows) :
            i < j =>
                \/ Rows[i].src.unit < Rows[j].src.unit
                \/ /\ Rows[i].src.unit = Rows[j].src.unit
                   /\ Rows[i].src.k < Rows[j].src.k

\* C5 witness: a table with two buckets of one unit and a row of another unit.
C5_Witness ==
    /\ Bound("no2_df")
    /\ \E i, j, l \in 1..Len(Rows) :
          /\ Rows[i].src.unit = Rows[j].src.unit
          /\ Rows[i].src.k # Rows[j].src.k
          /\ Rows[l].src.unit # Rows[i].src.unit

\* the value the service holds for the bucket of a row: the statistic before
\* the table was built
RawStat(row) ==
    remote[<<row.src.cap.geometry.x, row.src.cap.geometry.y>>]
          [(Cell(no2_df, row, K_from).n \div AggregationDays) + 1]

\* the number a raw value stands for, NaN when it stands for none
ExpectedNumber(v) ==
    CASE v = Num(1) -> Num(1)
      [] v = Str(<<"1", "2">>) -> Num(12)
      [] OTHER -> NaN

\* C6: once the cell has run on responses that hold a bucket, the table is
\* bound and written (the coercion did not raise), every bucket of every
\* response has exactly one row, and the statistic of the row is the number
\* its raw value parses to, or not-a-number when it does not parse.
C6_Coercion ==
    (last_run.runs > 0 /\ SumLen(DataLists) > 0) =>
        /\ Bound("no2_df") /\ Bound("csv")
        /\ \A u \in 1..Len(DataLists) : \A k \in 1..Len(DataLists[u]) :
              Cardinality({i \in 1..Len(Rows) :
                              Rows[i].src.unit = u /\ Rows[i].src.k = k}) = 1
        /\ \A i \in 1..Len(Rows) :
              Cell(no2_df, Rows[i], K_mean) = ExpectedNumber(RawStat(Rows[i]))

\* C6 witness: a table with a string that parsed to a number and a string that
\* did not parse.
C6_Witness ==
    /\ last_run.runs > 0
    /\ \E i, j \in 1..Len(Rows) :
          /\ RawStat(Rows[i]) = Str(<<"1", "2">>)
          /\ Cell(no2_df, Rows[i], K_mean) = Num(12)
          /\ RawStat(Rows[j]) = Str(<<"x">>)
          /\ Cell(no2_df, Rows[j], K_mean) = NaN

\* C7: a run of the normalization cell on the payload and the capitals that
\* its last run read leaves the table and the written file as they were.
C7_RerunIdentical ==
    [][(/\ last_run.runs > 0
        /\ last_run.stats = pollution_stats
        /\ last_run.names = NamesOf(selected_capitals)
        /\ NormalizeCell)
       => (no2_df' = no2_df /\ csv' = csv /\ bound' = bound)]_vars

\* C7 witness: the cell has run twice on responses that hold buckets.
C7_Witness == last_run.runs >= 2 /\ Bound("csv") /\ Len(Rows) >= 2

\* the (name, from, to) triple of a row
Triple(row) ==
    <<Cell(no2_df, row, K_name), Cell(no2_df, row, K_from), Cell(no2_df, row, K_to)>>

\* C8 as stated: no two rows of the written table have the same
\* (name, from, to) triple, and the table has the columns of the bucket start,
\* the bucket end, the label and the statistic.
C8_UniqueTriples ==
    Bound("csv") =>
        /\ \A i, j \in 1..Len(Rows) : i # j => Triple(Rows[i]) # Triple(Rows[j])
        /\ {K_from, K_to, K_name, K_mean} \subseteq Range(no2_df.cols)

\* whether the selected capitals have pairwise different names
DistinctNames ==
    \A i, j \in 1..Len(selected_capitals) :
        i # j => selected_capitals[i].name # selected_capitals[j].name

\* C8 amended: the written table has one row per (position of the spatial unit
\* in selected_capitals, time bucket) and the four kinds of columns; its
\* (name, from, to) triples are pairwise different when the selected capitals
\* have pairwise different names.
C8_OneRowPerUnitAndBucket ==
    Bound("csv") =>
        /\ \A i, j \in 1..Len(Rows) :
              i # j => <<Rows[i].src.unit, Triple(Rows[i])[2], Triple(Rows[i])[3]>>
                        # <<Rows[j].src.unit, Triple(Rows[j])[2], Triple(Rows[j])[3]>>
        /\ DistinctNames =>
              \A i, j \in 1..Len(Rows) : i # j => Triple(Rows[i]) # Triple(Rows[j])
        /\ {K_from, K_to, K_name, K_mean} \subseteq Range(no2_df.cols)

\* C8 witness: a written table of capitals of different names that hold the
\* same bucket.
C8_Witness ==
    /\ Bound("csv")
    /\ DistinctNames
    /\ \E i, j \in 1..Len(Rows) :
          /\ Rows[i].src.unit # Rows[j].src.unit
          /\ Triple(Rows[i])[2] = Triple(Rows[j])[2]

\* the table before the renaming
BeforeRename == Coerce(concat(no2_dfs))

\* the part of a nested key of the payload after its last '.'
ExpectedShort(key) ==
    CASE key = FromKey -> K_from
      [] key = ToKey -> K_to
      [] key = MeanKey -> K_mean
      [] OTHER -> key

\* C9: every column of no2_df has the name after the last '.' of its nested
\* key, in the position of that key, with the values the column had before.
C9_Rename ==
    Bound("no2_df") =>
        /\ Len(BeforeRename.rows) = Len(Rows)
        /\ \A c \in 1..Len(BeforeRename.cols) :
              /\ no2_df.cols[c] = ExpectedShort(BeforeRename.cols[c])
              /\ \A i \in 1..Len(Rows) :
                    Rows[i].cells[c] = BeforeRename.rows[i].cells[c]

\* C9 witness: a table with rows whose nested keys had a '.'.
C9_Witness ==
    /\ Bound("no2_df")
    /\ Len(Rows) >= 1
    /\ \E c \in 1..Len(BeforeRename.cols) : Contains(BeforeRename.cols[c], <<Dot>>)

GeometryOf(cap) == cap.geometry

\* C20: when the request cell has run with the extra point defined, requests
\* has one element per row of selected_capitals, in row order;
\* selected_capitals holds the rows of capitals whose name is in to_get, in
\* row order; and the bounding box of the i-th request is the 2000 m buffer,
\* in EPSG:3857, around the point of the i-th selected capital.
C20_OneRequestPerCapital ==
    [][(RequestCell /\ Bound("custom_point")) =>
          /\ selected_capitals' =
                SelectSeq(capitals',
                          LAMBDA c : c.name \in {"Amsterdam", "Brussels", "Tallinn",
                                                 "Berlin", custom_point})
          /\ Len(requests') = Len(selected_capitals')
          /\ \A i \in 1..Len(requests') :
                /\ requests'[i].cap = selected_capitals'[i]
                /\ requests'[i].bbox =
                      [x |-> GeometryOf(selected_capitals'[i]).x,
                       y |-> GeometryOf(selected_capitals'[i]).y,
                       crs |-> 3857, buf |-> 2000]]_vars

(***************************************************************************)
(* Who writes the table.                                                   *)
(***************************************************************************)
\* C15 as stated: the table bound to no2_df is the table as pd.concat built
\* it from the per-unit tables; no statement after the concatenation has
\* changed it.
C15_AsConcatenated == Bound("no2_df") => no2_df = concat(no2_dfs)

\* C15: the table and the written file are changed by the normalization cell
\* only; every other cell, the plot cell included, leaves them and the
\* per-unit tables as they are.  Inside the normalization cell the table is
\* changed after the concatenation, by the coercion, the renaming and the
\* month column, before it is written.
C15_SingleWriter ==
    [][(no2_df' # no2_df \/ csv' # csv \/ no2_dfs' # no2_dfs) => NormalizeCell]_vars

\* C15 witness: a table of two rows or more has been written and differs from
\* the concatenation of the per-unit tables.
C15_Witness ==
    /\ Bound("csv")
    /\ csv = no2_df
    /\ Len(no2_df.rows) >= 2
    /\ no2_df # concat(no2_dfs)
    /\ last_run.runs >= 1

(***************************************************************************)
(* Properties of the forest analysis.                                      *)
(***************************************************************************)
\* the value of a data variable of ds_s2 at a year of its coordinate
AtYear(values, y) == values[IndexOf(ds_s2.year, y)]

\* C16: for every year y of 2019..2023 in the dataset the year before is in
\* the dataset too, and CHANGE at the coordinate y is -1 when the pixel is
\* forest in y - 1 and not in y, +1 when it is not forest in y - 1 and forest
\* in y, and 0 otherwise: FOREST(y) minus FOREST(y - 1), under the later year.
C16_ChangeMap ==
    ("CHANGE" \in ds_s2.has) =>
        \A y \in 2019..2023 :
            IndexOf(ds_s2.year, y) > 0 =>
                /\ IndexOf(ds_s2.year, y - 1) > 0
                /\ AtYear(ds_s2.CHANGE, y) =
                      (CASE AtYear(ds_s2.FOREST, y - 1) /\ ~AtYear(ds_s2.FOREST, y)
                              -> Num(-1)
                         [] ~AtYear(ds_s2.FOREST, y - 1) /\ AtYear(ds_s2.FOREST, y)
                              -> Num(1)
                         [] OTHER -> Num(0))

\* C16 witness: the change map of all six years holds a loss and a gain.
C16_Witness ==
    /\ "CHANGE" \in ds_s2.has
    /\ Len(ds_s2.year) = 6
    /\ \E y, z \in 2019..2023 :
          AtYear(ds_s2.CHANGE, y) = Num(-1) /\ AtYear(ds_s2.CHANGE, z) = Num(1)

\* the years of the dataset in which the pixel was lost
LossYears == {ds_s2.year[i] : i \in {j \in 1..Len(ds_s2.year) : ds_s2.CHANGE[j] = Num(-1)}}

\* C17: LOST_YEAR is y mod 100 for the earliest year y with CHANGE = -1, and
\* 0 when no year has CHANGE = -1.
C17_LostYear ==
    ("LOST_YEAR" \in ds_s2.has) =>
        IF LossYears = {} THEN ds_s2.LOST_YEAR = Num(0)
        ELSE \E y \in LossYears :
                /\ \A z \in LossYears : y <= z
                /\ ds_s2.LOST_YEAR = Num(y % 100)

\* C17 witness: the pixel was lost, regained and lost again, and LOST_YEAR
\* is the year of the first loss.
C17_Witness ==
    /\ "LOST_YEAR" \in ds_s2.has
    /\ \E y, z, w \in 2019..2023 :
          /\ y < z /\ z < w
          /\ IndexOf(ds_s2.year, w) > 0
          /\ AtYear(ds_s2.CHANGE, y) = Num(-1)
          /\ AtYear(ds_s2.CHANGE, z) = Num(1)
          /\ AtYear(ds_s2.CHANGE, w) = Num(-1)
          /\ ds_s2.LOST_YEAR = Num(y % 100)

(***************************************************************************)
(* Properties of the yearly mosaics.                                       *)
(***************************************************************************)
\* the file ./data/<y>.tif
ExpectedFile(y) ==
    CASE y = 2018 -> <<"2", "0", "1", "8", ".", "t", "i", "f">>
      [] y = 2019 -> <<"2", "0", "1", "9", ".", "t", "i", "f">>
      [] y = 2020 -> <<"2", "0", "2", "0", ".", "t", "i", "f">>
      [] y = 2021 -> <<"2", "0", "2", "1", ".", "t", "i", "f">>
      [] y = 2022 -> <<"2", "0", "2", "2", ".", "t", "i", "f">>
      [] y = 2023 -> <<"2", "0", "2", "3", ".", "t", "i", "f">>

\* the time interval (y-06-01, y-09-01)
ExpectedInterval(y) ==
    <<[year |-> y, month |-> 6, day |-> 1], [year |-> y, month |-> 9, day |-> 1]>>

\* what the service returns for the time interval of the year y
ExpectedResponse(y) == [time_interval |-> ExpectedInterval(y), ndvi |-> mosaics[y]]

\* the files of ./data that are not the file of a year
OutputFiles == {n \in DOMAIN data_dir : n \notin {ExpectedFile(y) : y \in 2018..2023}}

\* C18: sh_requests holds one request for each year of 2018..2023 and no
\* other, the request of the year y with the time interval (y-06-01,
\* y-09-01); and a run of the rename cell on the six outputs of the download
\* leaves in ./data the six files <y>.tif and nothing else, the file of y
\* holding the response to the request of y, whatever files of years were
\* there before.
C18_YearFiles ==
    /\ [](Bound("sh_requests") =>
            /\ DOMAIN sh_requests = 2018..2023
            /\ \A y \in 2018..2023 : sh_requests[y].time_interval = ExpectedInterval(y))
    /\ [][(RenameCell /\ Cardinality(OutputFiles) = 6)
          => /\ DOMAIN data_dir' = {ExpectedFile(y) : y \in 2018..2023}
             /\ \A y \in 2018..2023 : data_dir'[ExpectedFile(y)] = ExpectedResponse(y)]_vars

\* C18 witness: the download has returned and ./data holds the six files of
\* the years, each with the response of its year, and nothing else.
C18_Witness ==
    /\ Bound("data")
    /\ DOMAIN data_dir = {ExpectedFile(y) : y \in 2018..2023}
    /\ \A y \in 2018..2023 : data_dir[ExpectedFile(y)] = ExpectedResponse(y)

(***************************************************************************)
(* Properties of the cloud-free mosaic.                                    *)
(***************************************************************************)
\* the positions of the samples whose SCL code is not one of the invalid codes
ValidSamples == {i \in 1..Len(samples) : samples[i].SCL \notin {0, 1, 3, 7, 8, 9, 10}}

\* the value at index floor(n / 4), counted from 0, of the ascending order
\* of a band over the n valid samples: at most floor(n / 4) of the values
\* are smaller and more than floor(n / 4) are not greater
QuartileOf(name) ==
    CHOOSE v \in {samples[i][name] : i \in ValidSamples} :
        /\ Cardinality({i \in ValidSamples : samples[i][name] < v})
              <= Cardinality(ValidSamples) \div 4
        /\ Cardinality({i \in ValidSamples : samples[i][name] <= v})
              > Cardinality(ValidSamples) \div 4

\* C19: when a sample is valid, the value of each band is the value at index
\* floor(n / 4) of the ascending order of that band over the n valid samples
\* (such a value exists, and it is a value of a valid sample), and the output
\* is B04, B03, B02 and the NDVI of B08 and B04, times 10000; when no sample
\* is valid the output is four times -32768.
C19_FirstQuartile ==
    (pixel # <<>>) =>
        IF ValidSamples # {}
        THEN /\ \A name \in {"B08", "B04", "B03", "B02"} :
                  \E v \in {samples[i][name] : i \in ValidSamples} : v = QuartileOf(name)
             /\ pixel = <<Num(QuartileOf("B04") * 10000),
                          Num(QuartileOf("B03") * 10000),
                          Num(QuartileOf("B02") * 10000),
                          [num |-> (QuartileOf("B08") - QuartileOf("B04")) * 10000,
                           den |-> QuartileOf("B08") + QuartileOf("B04")]>>
        ELSE pixel = <<Num(-32768), Num(-32768), Num(-32768), Num(-32768)>>

\* C19 witness: four valid samples, so that the index is 1, and an invalid
\* one whose values are not in the output.
C19_Witness ==
    /\ pixel # <<>>
    /\ Cardinality(ValidSamples) = 4
    /\ Len(samples) = 5
    /\ \E i, j \in ValidSamples : samples[i].B04 # samples[j].B04

(***************************************************************************)
(* Where the user-defined point lies.                                      *)
(***************************************************************************)
\* C21: every row of capitals named custom_point lies at longitude lon and
\* latitude lat (x = lon, y = lat), and so does the bounding box of every
\* request built for such a row.
C21_ExtraPointAtLatLon ==
    Bound("custom_point") =>
        /\ \A i \in 1..Len(capitals) :
              capitals[i].name = custom_point =>
                  /\ capitals[i].geometry.x = lon
                  /\ capitals[i].geometry.y = lat
        /\ \A i \in 1..Len(requests) :
              requests[i].cap.name = custom_point =>
                  /\ requests[i].bbox.x = lon
                  /\ requests[i].bbox.y = lat

(***************************************************************************)
(* The monthly mean of a pixel.                                            *)
(***************************************************************************)
\* the positions of the acquisitions that have data
ClearPositions == {i \in 1..Len(no2_samples) : no2_samples[i].dataMask = 1}

\* the NO2 values at a set of positions, added up
RECURSIVE SumAt(_)
SumAt(positions) ==
    IF positions = {} THEN 0
    ELSE LET i == CHOOSE j \in positions : TRUE
         IN  no2_samples[i].NO2 + SumAt(positions \ {i})

\* C24 as stated: the value returned for a pixel is the sum of NO2 over the
\* acquisitions with dataMask == 1 divided by their number, and the script
\* only ever divides by a non-zero number.
C24_MeanDividesByNonZero ==
    mean_pixel # <<>> =>
        /\ Cardinality(ClearPositions) # 0
        /\ mean_pixel = <<Ratio(SumAt(ClearPositions), Cardinality(ClearPositions))>>

\* C24 amended: the value returned for a pixel is the sum of NO2 over the
\* acquisitions with dataMask == 1 divided by their number when there is
\* one; when no acquisition has data the script divides zero by zero and
\* returns NaN.  Acquisitions without data never contribute.
C24_MeanOrNaN ==
    mean_pixel # <<>> =>
        mean_pixel = <<IF Cardinality(ClearPositions) = 0
                       THEN NaN
                       ELSE Ratio(SumAt(ClearPositions), Cardinality(ClearPositions))>>

\* the mean was computed from two acquisitions with data and different
\* values, with an acquisition without data among them
C24_Witness ==
    /\ mean_pixel # <<>>
    /\ \E i, j \in ClearPositions : no2_samples[i].NO2 # no2_samples[j].NO2
    /\ \E k \in 1..Len(no2_samples) : no2_samples[k].dataMask = 0

(***************************************************************************)
(* The tiles a catalog search returns.                                     *)
(***************************************************************************)
\* C23: a tile inside the bounding box and the time interval is in the
\* results if and only if its cloud cover is not more than 5 percent.
C23_KeepsUpToFivePercent ==
    Bound("results") =>
        \A i \in 1..Len(catalog_tiles) :
            (catalog_tiles[i].in_bbox /\ catalog_tiles[i].in_time) =>
                (catalog_tiles[i] \in Range(results) <=> catalog_tiles[i].cloud_cover <= 5)

(***************************************************************************)
(* The statistics of a country.                                            *)
(***************************************************************************)
\* the pixels whose rasterized value is the given one
Selected(value) == {p \in PixelIndex : country_array[p] = value}

\* the pixels of a set that hold a number
WithData(pixels) == {p \in pixels : mean_data[p] # NaN}

\* the numbers held by a set of pixels, added up
RECURSIVE SumOver(_)
SumOver(pixels) ==
    IF pixels = {} THEN 0
    ELSE LET p == CHOOSE q \in pixels : TRUE
         IN  mean_data[p].n + SumOver(pixels \ {p})

\* the IDs of the countries
CountryIds == Range(countries.ID)

\* C22: the country IDs are pairwise distinct; every pixel of country_array
\* holds one value, a country ID or the fill -1; the pixels get_array
\* returns for two distinct IDs are disjoint and a pixel holding the fill
\* is in no country's array; and the mean stored for an ID is the mean of
\* the non-NaN values of exactly the pixels whose value is that ID (NaN
\* when there is no such value).
C22_CountryStatistics ==
    Bound("country_array") =>
        /\ \A i, j \in 1..Len(countries.ID) :
              countries.ID[i] = countries.ID[j] => i = j
        /\ Len(countries.ID) = Len(countries.geometry)
        /\ \A p \in PixelIndex : country_array[p] \in CountryIds \cup {-1}
        /\ -1 \notin CountryIds
        /\ \A a \in CountryIds :
              /\ Len(get_array(a)) = Cardinality(Selected(a))
              /\ \A p \in PixelIndex :
                    (mean_data[p] # NaN /\ mean_data[p] \in Range(get_array(a)))
                        => country_array[p] = a
              /\ \A p \in Selected(a) : mean_data[p] \in Range(get_array(a))
        /\ \A a, b \in CountryIds : a # b => Selected(a) \cap Selected(b) = {}
        /\ Bound("mean") =>
              \A k \in 1..Len(countries.ID) :
                  countries.mean[k] =
                      LET with == WithData(Selected(countries.ID[k]))
                      IN  IF with = {} THEN NaN
                          ELSE Ratio(SumOver(with), Cardinality(with))

\* the means were computed for two countries that each hold pixels, one of
\* them with a pixel without data and a pixel with data, and a pixel lies in
\* no country
C22_Witness ==
    /\ Bound("mean")
    /\ \E a, b \in CountryIds : a # b /\ Selected(a) # {} /\ Selected(b) # {}
    /\ \E a \in CountryIds : WithData(Selected(a)) \notin {{}, Selected(a)}
    /\ Selected(-1) # {}

====
